---- MODULE Spec2Model ----
(***************************************************************************)
(* Model of the broadcast registry (Event) and the two HTTP handlers of    *)
(* main.go.  Every stream session (receiveChatHandler) and every           *)
(* publishing caller (sendChatHandler) is a goroutine; Event.Subscribers   *)
(* is shared and is read and written WITHOUT any lock, so the registry     *)
(* operations are modelled at the granularity of their accesses to the     *)
(* shared slice: one step per load of the slice header, per element read   *)
(* of a range loop, per append (element write / memmove), per store of     *)
(* the header and per channel operation.  Each single step is atomic and   *)
(* memory is sequentially consistent (a header is never seen torn); the    *)
(* races left are the interleavings of these steps.  A panic ends the      *)
(* goroutine it occurs in (net/http recovers it).                          *)
(*                                                                         *)
(* A Go slice is a header (array, len, cap) over a backing array.  The     *)
(* backing array allocated by a session's append is named by that session  *)
(* (a session appends once); the channel made by a session is named by     *)
(* that session too.  0 names the nil array and the nil channel.           *)
(***************************************************************************)
EXTENDS Integers, Sequences, FiniteSets, TLC

\* ----------------------------------------------------------------- bounds
NumSessions == 2      \* stream sessions (GET /chat/events requests)
NumPublishers == 1    \* publishing callers (POST /chat/send clients)
MaxMsgs == 2          \* Publish calls each caller makes, one after another
MaxTicks == 1         \* seconds the wall clock advances during the run
MaxStream == 2        \* stream length up to which receives from a closed outbox are followed

\* The Unix time (seconds) at which the run starts.
Now0 == 9

Sessions == 1..NumSessions
Publishers == 1..NumPublishers

\* ------------------------------------------------------------ pure helpers

\* fmt.Sprintf("%d", n) for n >= 0: the decimal digits of n.
RECURSIVE FormatInt(_)
FormatInt(n) == IF n < 10 THEN <<n>> ELSE FormatInt(n \div 10) \o <<n % 10>>

\* The zero value of Subscriber: ID "", Closed false, Channel nil.
ZeroSubscriber == [ID |-> <<>>, Closed |-> FALSE, Channel |-> 0]

\* The zero value of the slice Event.Subscribers (main: chatEvent := &Event{}).
NilSlice == [arr |-> 0, len |-> 0, cap |-> 0]

\* Capacity the runtime gives append when the backing array is full.
GrowCap(oldcap) == IF oldcap = 0 THEN 1 ELSE 2 * oldcap

\* Faulty variant of SameID: the comparison inverted.
SameID_Inverted(a, b) == a # b

\* s.ID != ID is false: the two strings are equal.
SameID(a, b) == a = b

\* The payload of the k-th message of publishing caller p (opaque bytes).
Payload(p, k) == <<p, k>>

\* fmt.Fprintf(w, "data: %s\n\n", string(data)): one SSE event.
SSEEvent(data) == <<"data: ", data, "\n\n">>

VARIABLES
  clock,      \* time.Now().Unix()
  hdr,        \* e.Subscribers: the slice header
  mem,        \* the backing arrays, by the session that allocated them
  closed,     \* closed[c]: channel c has been closed
  spc,        \* session: position in receiveChatHandler
  sub,        \* session: the Subscriber returned by / built in Subscribe
  sh,         \* session: slice header held in a register (range copy, append result)
  si,         \* session: index of the range loop of Unsubscribe
  sdata,      \* session: data received from the channel, not yet written
  cancelled,  \* r.Context().Done() is closed
  stream,     \* the events written and flushed to the peer
  scell,      \* session: the range loop's copy of the element in Unsubscribe
  unsubCalls, \* arguments of the Unsubscribe calls the session has made
  werr,       \* session: a write to the peer has failed
  ppc,        \* publisher: position in sendChatHandler / Publish
  ph,         \* publisher: range copy of the slice header
  pi,         \* publisher: index of the range loop
  pcell,      \* publisher: the range loop's copy of the element (subscriber)
  pk,         \* publisher: number of the message being / last published
  delivered,  \* publisher: sends completed by the current Publish call, per channel
  pstart,     \* publisher: the outboxes in the live set, their sessions in the loop,
              \* when the current call began
  quiet       \* publisher: no Subscribe/Unsubscribe step since the current call began

svars == <<spc, sub, sh, si, scell, sdata, cancelled, stream, unsubCalls, werr>>
pvars == <<ppc, ph, pi, pcell, pk, delivered, pstart, quiet>>
vars == <<clock, hdr, mem, closed, svars, pvars>>

\* Positions of a session inside Subscribe and inside Unsubscribe.
InSubscribe == {"sub_load", "sub_append", "sub_store"}
InUnsubscribe == {"unsub_iter", "unsub_remove", "unsub_store", "unsub_close"}
InLoop == {"select", "write"}
InPublish == {"pub_iter", "pub_send"}

\* The live set as e.Subscribers denotes it now: elements 0..len-1.
Live == [j \in 1..hdr.len |-> mem[hdr.arr][j]]
LiveChannels == {Live[j].Channel : j \in 1..hdr.len}

Init ==
  /\ clock = Now0
  /\ hdr = NilSlice
  /\ mem = [a \in Sessions |-> <<>>]
  /\ closed = [c \in Sessions |-> FALSE]
  /\ spc = [s \in Sessions |-> "start"]
  /\ sub = [s \in Sessions |-> ZeroSubscriber]
  /\ sh = [s \in Sessions |-> NilSlice]
  /\ si = [s \in Sessions |-> 0]
  /\ scell = [s \in Sessions |-> ZeroSubscriber]
  /\ sdata = [s \in Sessions |-> <<>>]
  /\ cancelled = [s \in Sessions |-> FALSE]
  /\ stream = [s \in Sessions |-> <<>>]
  /\ unsubCalls = [s \in Sessions |-> <<>>]
  /\ werr = [s \in Sessions |-> FALSE]
  /\ ppc = [p \in Publishers |-> "idle"]
  /\ ph = [p \in Publishers |-> NilSlice]
  /\ pi = [p \in Publishers |-> 0]
  /\ pcell = [p \in Publishers |-> ZeroSubscriber]
  /\ pk = [p \in Publishers |-> 0]
  /\ delivered = [p \in Publishers |-> [c \in Sessions |-> 0]]
  /\ pstart = [p \in Publishers |-> {}]
  /\ quiet = [p \in Publishers |-> TRUE]

\* A step of a Subscribe or Unsubscribe call: every Publish call in progress,
\* or returned and not yet answered, is no longer undisturbed.
Disturb ==
  quiet' = [p \in Publishers |->
              IF ppc[p] \in InPublish \cup {"pub_respond"} THEN FALSE ELSE quiet[p]]

\* ------------------------------------------------------------ environment

\* The wall clock reaches the next second (the clock is read by Subscribe
\* only, so its later values are not modelled).
Tick ==
  /\ clock < Now0 + MaxTicks
  /\ \E s \in Sessions : spc[s] = "start"
  /\ clock' = clock + 1
  /\ UNCHANGED <<hdr, mem, closed, svars, pvars>>

\* The peer of session s disconnects: the request's context is cancelled.
Cancel(s) ==
  /\ spc[s] \in InLoop
  /\ ~cancelled[s]
  /\ cancelled' = [cancelled EXCEPT ![s] = TRUE]
  /\ UNCHANGED <<clock, hdr, mem, closed, spc, sub, sh, si, scell, sdata, stream, unsubCalls, werr, pvars>>

\* ------------------------------------------------ receiveChatHandler, Subscribe

\* Faulty variant of ConnectNoFlusher: the subscriber and its outbox are made
\* before the transport is tested.
ConnectNoFlusher_SubscriberMade(s) ==
  /\ spc[s] = "start"
  /\ sub' = [sub EXCEPT ![s] = [ID |-> FormatInt(clock), Closed |-> FALSE, Channel |-> s]]
  /\ spc' = [spc EXCEPT ![s] = "rejected"]
  /\ UNCHANGED <<clock, hdr, mem, closed, sh, si, scell, sdata, cancelled, stream,
                 unsubCalls, werr, pvars>>

\* The transport is no http.Flusher: 500, return; Subscribe is not called.
ConnectNoFlusher(s) ==
  /\ spc[s] = "start"
  /\ spc' = [spc EXCEPT ![s] = "rejected"]
  /\ UNCHANGED <<clock, hdr, mem, closed, sub, sh, si, scell, sdata, cancelled, stream,
                 unsubCalls, werr, pvars>>

\* The transport is a Flusher; Subscribe is entered and builds the Subscriber:
\* the ID is the clock's second, the channel is new (unbuffered, open).
Connect(s) ==
  /\ spc[s] = "start"
  /\ sub' = [sub EXCEPT ![s] = [ID |-> FormatInt(clock), Closed |-> FALSE, Channel |-> s]]
  /\ spc' = [spc EXCEPT ![s] = "sub_load"]
  /\ Disturb
  /\ UNCHANGED <<clock, hdr, mem, closed, sh, si, scell, sdata, cancelled, stream, unsubCalls, werr,
                 ppc, ph, pi, pcell, pk, delivered, pstart>>

\* append(e.Subscribers, subscriber): load the slice header.
SubLoad(s) ==
  /\ spc[s] = "sub_load"
  /\ sh' = [sh EXCEPT ![s] = hdr]
  /\ spc' = [spc EXCEPT ![s] = "sub_append"]
  /\ Disturb
  /\ UNCHANGED <<clock, hdr, mem, closed, sub, si, scell, sdata, cancelled, stream, unsubCalls, werr,
                 ppc, ph, pi, pcell, pk, delivered, pstart>>

\* The array append writes to and the header it returns, for header h loaded
\* by session s: in place when there is room, else a new array of grown
\* capacity holding a copy of the old elements.
AppendArray(s, h) ==
  IF h.len < h.cap
    THEN [mem[h.arr] EXCEPT ![h.len + 1] = sub[s]]
    ELSE [j \in 1..GrowCap(h.cap) |->
            IF j <= h.len THEN mem[h.arr][j]
            ELSE IF j = h.len + 1 THEN sub[s] ELSE ZeroSubscriber]
AppendHeader(s, h) ==
  IF h.len < h.cap
    THEN [arr |-> h.arr, len |-> h.len + 1, cap |-> h.cap]
    ELSE [arr |-> s, len |-> h.len + 1, cap |-> GrowCap(h.cap)]

SubAppend(s) ==
  /\ spc[s] = "sub_append"
  /\ mem' = [mem EXCEPT ![AppendHeader(s, sh[s]).arr] = AppendArray(s, sh[s])]
  /\ sh' = [sh EXCEPT ![s] = AppendHeader(s, sh[s])]
  /\ spc' = [spc EXCEPT ![s] = "sub_store"]
  /\ Disturb
  /\ UNCHANGED <<clock, hdr, closed, sub, si, scell, sdata, cancelled, stream, unsubCalls, werr,
                 ppc, ph, pi, pcell, pk, delivered, pstart>>

\* e.Subscribers = <result of append>; Subscribe returns, the loop is entered.
SubStore(s) ==
  /\ spc[s] = "sub_store"
  /\ hdr' = sh[s]
  /\ sh' = [sh EXCEPT ![s] = NilSlice]
  /\ spc' = [spc EXCEPT ![s] = "select"]
  /\ Disturb
  /\ UNCHANGED <<clock, mem, closed, sub, si, scell, sdata, cancelled, stream, unsubCalls, werr,
                 ppc, ph, pi, pcell, pk, delivered, pstart>>

\* ------------------------------------------------- the streaming loop

\* case data := <-subscriber.Channel, on a closed channel: the receive
\* succeeds at once with the zero value (nil bytes).
RecvClosed(s) ==
  /\ spc[s] = "select"
  /\ closed[sub[s].Channel]
  /\ Len(stream[s]) < MaxStream
  /\ sdata' = [sdata EXCEPT ![s] = <<>>]
  /\ spc' = [spc EXCEPT ![s] = "write"]
  /\ UNCHANGED <<clock, hdr, mem, closed, sub, sh, si, scell, cancelled, stream,
                 unsubCalls, werr, pvars>>

\* Faulty variant of Forward: the event is put at the head of the stream.
Forward_Prepend(s) ==
  /\ spc[s] = "write"
  /\ stream' = [stream EXCEPT ![s] = <<SSEEvent(sdata[s])>> \o stream[s]]
  /\ sdata' = [sdata EXCEPT ![s] = <<>>]
  /\ spc' = [spc EXCEPT ![s] = "select"]
  /\ UNCHANGED <<clock, hdr, mem, closed, sub, sh, si, scell, cancelled,
                 unsubCalls, werr, pvars>>

\* fmt.Fprintf(w, ...); flusher.Flush(): the event reaches the peer.
Forward(s) ==
  /\ spc[s] = "write"
  /\ stream' = [stream EXCEPT ![s] = Append(stream[s], SSEEvent(sdata[s]))]
  /\ sdata' = [sdata EXCEPT ![s] = <<>>]
  /\ spc' = [spc EXCEPT ![s] = "select"]
  /\ UNCHANGED <<clock, hdr, mem, closed, sub, sh, si, scell, cancelled,
                 unsubCalls, werr, pvars>>

\* The write to the peer fails: Fprintf's error is dropped and Flush returns
\* nothing, so the loop goes on; the server cancels the request's context
\* when a write to the connection fails.
ForwardFail(s) ==
  /\ spc[s] = "write"
  /\ cancelled' = [cancelled EXCEPT ![s] = TRUE]
  /\ werr' = [werr EXCEPT ![s] = TRUE]
  /\ sdata' = [sdata EXCEPT ![s] = <<>>]
  /\ spc' = [spc EXCEPT ![s] = "select"]
  /\ UNCHANGED <<clock, hdr, mem, closed, sub, sh, si, scell, stream,
                 unsubCalls, pvars>>

\* Faulty variant of Disconnect: the handler returns with no deferred Unsubscribe.
Disconnect_NoDefer(s) ==
  /\ spc[s] = "select"
  /\ cancelled[s]
  /\ spc' = [spc EXCEPT ![s] = "done"]
  /\ UNCHANGED <<clock, hdr, mem, closed, sub, sh, si, scell, sdata, cancelled, stream,
                 unsubCalls, werr, pvars>>

\* case <-r.Context().Done(): log, return; the deferred Unsubscribe(subscriber.ID)
\* runs and its range loop copies the slice header.
Disconnect(s) ==
  /\ spc[s] = "select"
  /\ cancelled[s]
  /\ unsubCalls' = [unsubCalls EXCEPT ![s] = Append(unsubCalls[s], sub[s].ID)]
  /\ sh' = [sh EXCEPT ![s] = hdr]
  /\ si' = [si EXCEPT ![s] = 0]
  /\ spc' = [spc EXCEPT ![s] = "unsub_iter"]
  /\ Disturb
  /\ UNCHANGED <<clock, hdr, mem, closed, sub, scell, sdata, cancelled, stream, werr,
                 ppc, ph, pi, pcell, pk, delivered, pstart>>

\* ------------------------------------------------------------ Unsubscribe

\* One iteration of `for i, s := range e.Subscribers`: the loop ends (no match,
\* Unsubscribe returns), or element i is copied and compared with ID.
UnsubIter(s) ==
  /\ spc[s] = "unsub_iter"
  /\ Disturb
  /\ IF si[s] >= sh[s].len
       THEN /\ spc' = [spc EXCEPT ![s] = "done"]
            /\ sh' = [sh EXCEPT ![s] = NilSlice]
            /\ si' = [si EXCEPT ![s] = 0]
            /\ UNCHANGED scell
       ELSE LET c == mem[sh[s].arr][si[s] + 1] IN
            IF ~SameID(c.ID, unsubCalls[s][Len(unsubCalls[s])])
              THEN /\ si' = [si EXCEPT ![s] = si[s] + 1]
                   /\ UNCHANGED <<spc, sh, scell>>
              ELSE /\ scell' = [scell EXCEPT ![s] = c]
                   /\ sh' = [sh EXCEPT ![s] = NilSlice]
                   /\ spc' = [spc EXCEPT ![s] = "unsub_remove"]
                   /\ UNCHANGED si
  /\ UNCHANGED <<clock, hdr, mem, closed, sub, sdata, cancelled, stream, unsubCalls, werr,
                 ppc, ph, pi, pcell, pk, delivered, pstart>>

\* e.Subscribers[:i] and e.Subscribers[i+1:] are in range for header h.
SliceInRange(h, i) == i <= h.cap /\ i + 1 <= h.len

\* append(h[:i], h[i+1:]...): the elements after i move down one place in
\* h's own array (the last place keeps its old value); the result is one shorter.
RemoveArray(h, i) ==
  [j \in 1..h.cap |-> IF j >= i + 1 /\ j <= h.len - 1 THEN mem[h.arr][j + 1]
                      ELSE mem[h.arr][j]]
RemoveHeader(h, i) == [arr |-> h.arr, len |-> h.len - 1, cap |-> h.cap]

\* The match: e.Subscribers is loaded again and sliced at the index found in
\* the range copy; out of range is a run-time panic.
UnsubRemove(s) ==
  /\ spc[s] = "unsub_remove"
  /\ Disturb
  /\ IF SliceInRange(hdr, si[s])
       THEN /\ mem' = [mem EXCEPT ![hdr.arr] = RemoveArray(hdr, si[s])]
            /\ sh' = [sh EXCEPT ![s] = RemoveHeader(hdr, si[s])]
            /\ spc' = [spc EXCEPT ![s] = "unsub_store"]
       ELSE /\ spc' = [spc EXCEPT ![s] = "panic"]
            /\ UNCHANGED <<mem, sh>>
  /\ si' = [si EXCEPT ![s] = 0]
  /\ UNCHANGED <<clock, hdr, closed, sub, scell, sdata, cancelled, stream, unsubCalls, werr,
                 ppc, ph, pi, pcell, pk, delivered, pstart>>

\* e.Subscribers = <result of append>.
UnsubStore(s) ==
  /\ spc[s] = "unsub_store"
  /\ hdr' = sh[s]
  /\ sh' = [sh EXCEPT ![s] = NilSlice]
  /\ spc' = [spc EXCEPT ![s] = "unsub_close"]
  /\ Disturb
  /\ UNCHANGED <<clock, mem, closed, sub, si, scell, sdata, cancelled, stream,
                 unsubCalls, werr, ppc, ph, pi, pcell, pk, delivered, pstart>>

\* close(s.Channel); break.  Closing a closed (or nil) channel panics.
UnsubClose(s) ==
  /\ spc[s] = "unsub_close"
  /\ Disturb
  /\ LET c == scell[s].Channel IN
     IF c = 0 \/ closed[c]
       THEN /\ spc' = [spc EXCEPT ![s] = "panic"]
            /\ UNCHANGED closed
       ELSE /\ closed' = [closed EXCEPT ![c] = TRUE]
            /\ spc' = [spc EXCEPT ![s] = "done"]
  /\ UNCHANGED <<clock, hdr, mem, sub, sh, si, scell, sdata, cancelled, stream, unsubCalls, werr,
                 ppc, ph, pi, pcell, pk, delivered, pstart>>

\* ------------------------------------------------ sendChatHandler, Publish

\* chatEvent.Publish(chatRaw): the range loop copies the slice header.
PubRange(p) ==
  /\ ppc[p] = "idle"
  /\ pk[p] < MaxMsgs
  /\ pk' = [pk EXCEPT ![p] = pk[p] + 1]
  /\ ph' = [ph EXCEPT ![p] = hdr]
  /\ pi' = [pi EXCEPT ![p] = 0]
  /\ quiet' = [quiet EXCEPT ![p] = \A s \in Sessions : spc[s] \notin InSubscribe \cup InUnsubscribe]
  /\ ppc' = [ppc EXCEPT ![p] = "pub_iter"]
  /\ pstart' = [pstart EXCEPT ![p] = {c \in LiveChannels \ {0} : spc[c] \in InLoop}]
  /\ UNCHANGED <<clock, hdr, mem, closed, svars, pcell, delivered>>

\* Faulty variant of PubIter: the loop body runs once more than the range has
\* elements (index out of range panics).
PubIter_BodyFirst(p) ==
  /\ ppc[p] = "pub_iter"
  /\ IF pi[p] > ph[p].len
       THEN /\ ppc' = [ppc EXCEPT ![p] = "pub_respond"]
            /\ ph' = [ph EXCEPT ![p] = NilSlice]
            /\ pi' = [pi EXCEPT ![p] = 0]
            /\ UNCHANGED pcell
       ELSE /\ pcell' = [pcell EXCEPT ![p] =
                           IF pi[p] < ph[p].cap THEN mem[ph[p].arr][pi[p] + 1]
                           ELSE ZeroSubscriber]
            /\ ppc' = [ppc EXCEPT ![p] = IF pi[p] < ph[p].cap THEN "pub_send" ELSE "panic"]
            /\ UNCHANGED <<ph, pi>>
  /\ UNCHANGED <<clock, hdr, mem, closed, svars, pk, delivered, pstart, quiet>>

\* One iteration of `for _, subscriber := range e.Subscribers`: the loop ends
\* (Publish returns) or element i is copied.
PubIter(p) ==
  /\ ppc[p] = "pub_iter"
  /\ IF pi[p] >= ph[p].len
       THEN /\ ppc' = [ppc EXCEPT ![p] = "pub_respond"]
            /\ ph' = [ph EXCEPT ![p] = NilSlice]
            /\ pi' = [pi EXCEPT ![p] = 0]
            /\ UNCHANGED pcell
       ELSE /\ pcell' = [pcell EXCEPT ![p] = mem[ph[p].arr][pi[p] + 1]]
            /\ ppc' = [ppc EXCEPT ![p] = "pub_send"]
            /\ UNCHANGED <<ph, pi>>
  /\ UNCHANGED <<clock, hdr, mem, closed, svars, pk, delivered, pstart, quiet>>

\* Faulty variant of Deliver: the send gives up when no receiver is waiting.
Deliver_NoWait(p, s) ==
  /\ ppc[p] = "pub_send"
  /\ pcell[p].Channel = s
  /\ ~closed[s]
  /\ sub[s].Channel = s
  /\ IF spc[s] = "select"
       THEN /\ sdata' = [sdata EXCEPT ![s] = Payload(p, pk[p])]
            /\ spc' = [spc EXCEPT ![s] = "write"]
            /\ delivered' = [delivered EXCEPT ![p][s] = @ + 1]
       ELSE UNCHANGED <<sdata, spc, delivered>>
  /\ pi' = [pi EXCEPT ![p] = pi[p] + 1]
  /\ pcell' = [pcell EXCEPT ![p] = ZeroSubscriber]
  /\ ppc' = [ppc EXCEPT ![p] = "pub_iter"]
  /\ UNCHANGED <<clock, hdr, mem, closed, sub, sh, si, scell, cancelled, stream,
                 unsubCalls, werr, ph, pk, pstart, quiet>>

\* subscriber.Channel <- data meets `data := <-subscriber.Channel` of the
\* session that owns the channel: the unbuffered channel hands the payload over.
Deliver(p, s) ==
  /\ ppc[p] = "pub_send"
  /\ pcell[p].Channel = s
  /\ ~closed[s]
  /\ spc[s] = "select"
  /\ sub[s].Channel = s
  /\ sdata' = [sdata EXCEPT ![s] = Payload(p, pk[p])]
  /\ spc' = [spc EXCEPT ![s] = "write"]
  /\ delivered' = [delivered EXCEPT ![p][s] = @ + 1]
  /\ pi' = [pi EXCEPT ![p] = pi[p] + 1]
  /\ pcell' = [pcell EXCEPT ![p] = ZeroSubscriber]
  /\ ppc' = [ppc EXCEPT ![p] = "pub_iter"]
  /\ UNCHANGED <<clock, hdr, mem, closed, sub, sh, si, scell, cancelled, stream,
                 unsubCalls, werr, ph, pk, pstart, quiet>>

\* subscriber.Channel <- data on a closed channel, or the channel is closed
\* while the send is blocked: run-time panic in the publishing goroutine.
SendPanic(p) ==
  /\ ppc[p] = "pub_send"
  /\ pcell[p].Channel # 0
  /\ closed[pcell[p].Channel]
  /\ ppc' = [ppc EXCEPT ![p] = "panic"]
  /\ UNCHANGED <<clock, hdr, mem, closed, svars, ph, pi, pcell, pk, delivered, pstart, quiet>>

\* Publish has returned: 201 "Message sent"; the caller may send its next message.
PubRespond(p) ==
  /\ ppc[p] = "pub_respond"
  /\ ppc' = [ppc EXCEPT ![p] = "idle"]
  /\ delivered' = [delivered EXCEPT ![p] = [c \in Sessions |-> 0]]
  /\ quiet' = [quiet EXCEPT ![p] = TRUE]
  /\ pstart' = [pstart EXCEPT ![p] = {}]
  /\ UNCHANGED <<clock, hdr, mem, closed, svars, ph, pi, pcell, pk>>

Next ==
  \/ Tick
  \/ \E s \in Sessions :
       \/ ConnectNoFlusher(s) \/ Connect(s) \/ SubLoad(s) \/ SubAppend(s) \/ SubStore(s)
       \/ Cancel(s) \/ RecvClosed(s) \/ Forward(s) \/ ForwardFail(s) \/ Disconnect(s)
       \/ UnsubIter(s) \/ UnsubRemove(s) \/ UnsubStore(s) \/ UnsubClose(s)
  \/ \E p \in Publishers :
       \/ PubRange(p) \/ PubIter(p) \/ SendPanic(p) \/ PubRespond(p)
       \/ \E s \in Sessions : Deliver(p, s)

Spec == Init /\ [][Next]_vars

\* --------------------------------------------------------------- scheduling

\* A step session s takes on its own: any step of its handler but the two
\* cases of the select, which wait for a sender or for the cancellation.
SessionStep(s) ==
  \/ SubLoad(s) \/ SubAppend(s) \/ SubStore(s)
  \/ RecvClosed(s) \/ Forward(s) \/ ForwardFail(s)
  \/ UnsubIter(s) \/ UnsubRemove(s) \/ UnsubStore(s) \/ UnsubClose(s)

\* A step publishing caller p takes on its own, once Publish is called.
PublisherStep(p) == PubIter(p) \/ SendPanic(p) \/ PubRespond(p)

\* The Go scheduler runs every goroutine that can run, a send and a receive
\* that wait for each other meet, and a select with several ready cases
\* picks among them at random, so a case ready again and again is taken.
\* Nothing obliges a peer to connect, to disconnect or to publish.
FairSpec ==
  /\ Spec
  /\ \A s \in Sessions : WF_vars(SessionStep(s)) /\ SF_vars(Disconnect(s))
  /\ \A p \in Publishers : WF_vars(PublisherStep(p))
  /\ \A p \in Publishers : \A s \in Sessions : WF_vars(Deliver(p, s))

\* =====================================================================
\* Properties
\* =====================================================================

\* Subscribe has returned to session s (it holds its id and its outbox).
Subscribed(s) == spc[s] \in InLoop \cup InUnsubscribe \cup {"done", "panic"}

\* The Unsubscribe call of session s has returned normally.
Unsubscribed(s) == spc[s] = "done"

\* The payloads session s has taken from its outbox and written or is about
\* to write: the data of its stream's events, then the one in hand.
EventData(e) == e[2]
Seen(s) ==
  [j \in 1..Len(stream[s]) |-> EventData(stream[s][j])]
    \o (IF spc[s] = "write" THEN <<sdata[s]>> ELSE <<>>)

\* ---------------------------------------------------------------------
\* C1: the ids returned by Subscribe are pairwise distinct: no two sessions
\* hold the same id, whenever they subscribed.
C1_IdsPairwiseDistinct ==
  \A s, t \in Sessions :
    (s # t /\ Subscribed(s) /\ Subscribed(t)) => sub[s].ID # sub[t].ID

\* ---------------------------------------------------------------------
\* C2: when a Publish call returns and no Subscribe or Unsubscribe ran during
\* it, every session that is subscribed and has not left its loop received
\* the payload exactly once from that call, and every session that had
\* unsubscribed received it zero times.
C2_FanOutExactlyOnce ==
  \A p \in Publishers :
    (ppc[p] = "pub_respond" /\ quiet[p]) =>
      \A s \in Sessions :
        /\ spc[s] \in InLoop => delivered[p][s] = 1
        /\ spc[s] \in {"done", "panic"} => delivered[p][s] = 0

\* ---------------------------------------------------------------------
\* C3: once the Unsubscribe call of a session has returned, the outbox that
\* session got from Subscribe is not in the live set, so no later Publish
\* reads it there.
C3_UnsubscribedOutboxUnreachable ==
  \A s \in Sessions : Unsubscribed(s) => s \notin LiveChannels

\* ---------------------------------------------------------------------
\* C4: an outbox in the live set is open, the outbox of a session that has
\* finished unsubscribing is closed, and no outbox is about to be closed a
\* second time.
C4_ClosedExactlyOnceAtRemoval ==
  /\ \A c \in LiveChannels : c # 0 => ~closed[c]
  /\ \A s \in Sessions : Unsubscribed(s) => closed[s]
  /\ \A s \in Sessions : spc[s] = "unsub_close" => ~closed[scell[s].Channel]

\* ---------------------------------------------------------------------
\* C5: a step of Unsubscribe(id) that finds no match (the element read has
\* another id, or the range is exhausted) changes neither the live set nor
\* any outbox, and the call then goes on scanning or returns normally: a
\* call with no matching entry is a no-op without fault.
NoMatchHere(s) ==
  \/ si[s] >= sh[s].len
  \/ mem[sh[s].arr][si[s] + 1].ID # sub[s].ID
C5_UnsubscribeNoMatchIsNoOp ==
  [][\A s \in Sessions :
       (spc[s] = "unsub_iter" /\ NoMatchHere(s) /\ <<spc[s], si[s]>>' # <<spc[s], si[s]>>)
         => /\ UNCHANGED <<hdr, mem, closed>>
            /\ spc'[s] \in {"unsub_iter", "done"}
            /\ (si[s] >= sh[s].len => spc'[s] = "done")]_vars

\* A session whose Unsubscribe(id) returned without a match, after the
\* Unsubscribe(id) of another session with the same id had returned.
C5_Witness ==
  \E s, t \in Sessions :
    /\ s # t /\ sub[s].ID = sub[t].ID
    /\ Unsubscribed(s) /\ Unsubscribed(t)
    /\ scell[s] = ZeroSubscriber /\ scell[t] # ZeroSubscriber

\* ---------------------------------------------------------------------
\* C6: a Publish call that finds the live set empty makes no send (it is
\* never blocked or faulted) and its steps change neither the live set nor
\* any outbox nor any session: it returns at its next step.
C6_PublishEmptyIsNoOp ==
  [][\A p \in Publishers :
       /\ (ppc[p] = "idle" /\ ppc'[p] # "idle" /\ hdr.len = 0)
            => /\ ppc'[p] = "pub_iter" /\ ph'[p].len = 0
               /\ UNCHANGED <<hdr, mem, closed, svars>>
       /\ (ppc[p] = "pub_iter" /\ ph[p].len = 0 /\ ppc'[p] # "pub_iter")
            => /\ ppc'[p] = "pub_respond"
               /\ UNCHANGED <<hdr, mem, closed, svars>>]_vars

\* A Publish call that found the live set empty has returned.
C6_Witness ==
  \E p \in Publishers :
    /\ ppc[p] = "pub_respond" /\ pstart[p] = {} /\ hdr.len = 0
    /\ \A s \in Sessions : delivered[p][s] = 0

\* ---------------------------------------------------------------------
\* C7: in what a session takes from its outbox and writes to its stream,
\* the payloads of one publishing caller appear in the order that caller
\* published them: never a later one before an earlier one.
InPublishOrder(q) ==
  \A i, j \in 1..Len(q) :
    (i < j /\ q[i] # <<>> /\ q[j] # <<>> /\ q[i][1] = q[j][1]) => q[i][2] <= q[j][2]
C7_PerSubscriberOrder == \A s \in Sessions : InPublishOrder(Seen(s))

\* A session that stayed in its loop has written P1 then P2 of one caller.
C7_Witness ==
  \E s \in Sessions : \E p \in Publishers :
    /\ spc[s] = "select"
    /\ stream[s] = <<SSEEvent(Payload(p, 1)), SSEEvent(Payload(p, 2))>>

\* ---------------------------------------------------------------------
\* C8: a session makes no Unsubscribe call before it leaves its loop, and
\* once it has left the loop it has made exactly one, with its own id.
C8_UnsubscribeExactlyOnceOnExit ==
  \A s \in Sessions :
    /\ spc[s] \in {"start", "rejected"} \cup InSubscribe \cup InLoop => unsubCalls[s] = <<>>
    /\ spc[s] \in InUnsubscribe \cup {"done", "panic"} => unsubCalls[s] = <<sub[s].ID>>

\* A session that received a payload, was cancelled and has unsubscribed.
C8_Witness ==
  \E s \in Sessions :
    /\ Unsubscribed(s) /\ cancelled[s] /\ Len(stream[s]) > 0
    /\ unsubCalls[s] = <<sub[s].ID>>

\* ---------------------------------------------------------------------
\* C9: an outbox that was in the live set when a Publish call began is not
\* closed before that call has delivered its payload to it.
C9_NoLossOnTeardown ==
  \A p \in Publishers : \A c \in pstart[p] :
    (c # 0 /\ closed[c]) => delivered[p][c] >= 1

\* ---------------------------------------------------------------------
\* C10: no Publish is blocked in a send on a closed outbox, and none has
\* panicked.
C10_NoSendOnClosed ==
  \A p \in Publishers :
    /\ ppc[p] # "panic"
    /\ ppc[p] = "pub_send" => (pcell[p].Channel = 0 \/ ~closed[pcell[p].Channel])

\* ---------------------------------------------------------------------
\* C11: once the peer of a session has cancelled its connection, the entry
\* of that session is eventually out of the live set and stays out (so no
\* Publish that starts later finds it there).
C11_PromptUnregistration ==
  \A s \in Sessions : <>[]((cancelled[s] /\ ~werr[s]) => s \notin LiveChannels)

\* ---------------------------------------------------------------------
\* C12: a session whose entry was in the live set when a Publish call began
\* and that has stayed in its loop (its entry still there, its outbox open)
\* is never handed the payload of that call twice, and has been handed it
\* once when the call returns, whatever Subscribe or Unsubscribe calls of
\* other sessions ran meanwhile.
C12_TraversalMutuallyExclusive ==
  \A p \in Publishers : \A c \in pstart[p] :
    (spc[c] \in InLoop /\ c \in LiveChannels /\ ~closed[c]) =>
      /\ delivered[p][c] <= 1
      /\ ppc[p] = "pub_respond" => delivered[p][c] = 1

\* ---------------------------------------------------------------------
\* C13: when no Subscribe or Unsubscribe call is in progress (and none has
\* faulted), the live set holds exactly the sessions that subscribed and
\* have not unsubscribed, each once.
C13_NoLostRegistration ==
  (\A s \in Sessions : spc[s] \in {"start", "rejected", "done"} \cup InLoop) =>
    /\ LiveChannels = {s \in Sessions : spc[s] \in InLoop}
    /\ hdr.len = Cardinality({s \in Sessions : spc[s] \in InLoop})

\* ---------------------------------------------------------------------
\* C14: once the outbox of a session in its loop is closed, the session does
\* not go round the loop again: it takes nothing more from the outbox and
\* writes no further event to its stream.
C14_ClosedOutboxEndsLoop ==
  [][\A s \in Sessions :
       (spc[s] \in InLoop /\ closed[s]) =>
         /\ stream'[s] = stream[s]
         /\ ~(spc[s] = "select" /\ spc'[s] = "write")]_vars

\* ---------------------------------------------------------------------
\* C15: while a session stays connected, what it takes from its outbox is
\* a payload some Publish call is sending, every payload taken is written
\* as one SSE event at the end of the stream before the next is taken, and
\* the stream changes in no other way.
C15_StreamIsPayloadsReceived ==
  [][\A s \in Sessions :
       ~cancelled'[s] =>
         /\ (spc[s] = "select" /\ spc'[s] = "write")
              => \E p \in Publishers : ppc[p] = "pub_send" /\ sdata'[s] = Payload(p, pk[p])
         /\ (spc[s] = "write" /\ spc'[s] # "write")
              => stream'[s] = Append(stream[s], SSEEvent(sdata[s]))
         /\ stream'[s] # stream[s] => spc[s] = "write"]_vars

\* ---------------------------------------------------------------------
\* C16: a session one of whose writes failed ends without fault, and once
\* it has ended its own entry is out of the live set and its outbox closed;
\* its Unsubscribe touches no entry and no outbox but its own.
C16_WriteFailureHandledLocally ==
  \A s \in Sessions :
    werr[s] =>
      /\ spc[s] # "panic"
      /\ spc[s] = "done" => (s \notin LiveChannels /\ closed[s])
      /\ spc[s] \in {"unsub_remove", "unsub_store", "unsub_close"} => scell[s].Channel = s

C18_NoFlusherNoSubscribe ==
  [][\A s \in Sessions :
       /\ (spc[s] = "start" /\ spc'[s] = "rejected") => UNCHANGED <<hdr, mem, closed>>
       /\ spc'[s] = "rejected" =>
            /\ spc[s] \in {"start", "rejected"}
            /\ sub'[s] = ZeroSubscriber /\ mem'[s] = <<>> /\ ~closed'[s]
            /\ s \notin LiveChannels'
            /\ stream'[s] = <<>> /\ unsubCalls'[s] = <<>>
       /\ spc[s] = "rejected" => spc'[s] = "rejected"]_vars

\* A request was answered with the server error while another session is
\* registered: the live set still holds that one entry.
C18_Witness ==
  \E s, t \in Sessions :
    /\ spc[s] = "rejected" /\ spc[t] = "select"
    /\ hdr.len = 1 /\ LiveChannels = {t}

\* ---------------------------------------------------------------------
\* C19: while a session is in its loop its outbox is open, and no other
\* session's Unsubscribe has picked that session's entry to remove it and
\* close its outbox.
C19_OnlyOwnSessionCloses ==
  \A s \in Sessions :
    spc[s] \in InLoop =>
      /\ ~closed[s]
      /\ \A t \in Sessions \ {s} :
           spc[t] \in {"unsub_remove", "unsub_store", "unsub_close"} => scell[t].Channel # s

\* An entry of the live set whose session has ended (or whose outbox is nil):
\* nothing will ever receive from it and nothing will remove it.
Abandoned == \E c \in LiveChannels : c = 0 \/ spc[c] \in {"done", "panic"}

\* ---------------------------------------------------------------------
\* C20: unless the live set holds an entry whose session has ended without
\* removing it, every Publish call in progress eventually returns normally.
C20_PublishTerminates ==
  \A p \in Publishers :
    (ppc[p] \in InPublish) ~> (ppc[p] = "pub_respond" \/ Abandoned)

====
